---- MODULE Spec2Model ----
(***************************************************************************)
(* Model of two parts of Soledad:                                          *)
(*   - SQLCipherWrapper (src/src/leap/soledad/dbwrapper.py): a thread that  *)
(*     owns a sqlcipher database and serves requests posted on a queue;    *)
(*   - Soledad (src/__init__.py): bootstrap of the OpenPGP keypair and of   *)
(*     the secret for symmetric encryption.                                *)
(* Spec is the wrapper with its caller threads, SpecKeys is the key        *)
(* management of one Soledad instance.                                     *)
(***************************************************************************)
EXTENDS Integers, Sequences, FiniteSets, TLC

(***************************************************************************)
(* Bounds: the caller threads, and the calls they make between them.       *)
(***************************************************************************)
NumCallers == 2
MaxCalls == 2
\* the OpenPGP fingerprints and the secrets that exist
NumFingerprints == 2
NumSecrets == 2
NumDocIds == 2
NumData == 2

Callers == 1..NumCallers
Worker == 0

(***************************************************************************)
(* Attribute names.  A name is a sequence of tokens so that the private    *)
(* name mangling Python applies inside a class body can be computed.       *)
(***************************************************************************)
ClassName == "SQLCipherWrapper"
EndThread == <<"__", "end_thread">>
PutName == <<"put">>
SizeName == <<"size">>
NoSuchName == <<"nosuch">>
CloseName == <<"close">>
OpenName == <<"open">>
NoName == <<>>

\* the names a caller thread may ask the wrapper for: a method, a
\* non-callable attribute, a name the database does not have, and the
\* literal "__end_thread", which code outside the class passes unmangled
MethodNames == {PutName, SizeName, NoSuchName, EndThread}

\* an identifier that occurs in the class body, starts with two underscores
\* and does not end with two underscores is prefixed with _ClassName
Mangle(name) ==
    IF Len(name) >= 2 /\ name[1] = "__" /\ name[Len(name)] # "__"
    THEN <<"_", ClassName>> \o name
    ELSE name

(***************************************************************************)
(* Values.  Requests, attributes and results are records of one shape.     *)
(***************************************************************************)
NoQ == 0
None == [tag |-> "None", q |-> NoQ, n |-> 0]
Rev(q) == [tag |-> "rev", q |-> q, n |-> 0]
IntVal(n) == [tag |-> "int", q |-> NoQ, n |-> n]
MethodAttr == [tag |-> "method", q |-> NoQ, n |-> 0]

NoReq ==
    [mth |-> NoName, q |-> NoQ, afterClose |-> FALSE, isClose |-> FALSE,
     early |-> FALSE]
Qs == 1..MaxCalls

VARIABLES
    db,         \* self._db: "None" until the worker has opened the database
    storeState, \* the sqlcipher database: "unopened", "open" or "closed"
    docs,       \* the documents written to the database, in order
    inStore,    \* the database calls in progress: [thread, mth, q]
    queue,      \* self._queue
    stopped,    \* self._stopped
    lock,       \* self._lock is held
    wpc,        \* position of the worker thread in run()
    cur,        \* the request the worker took from the queue
    res,        \* the worker's local res
    reply,      \* the reply queue q of every request: the values put on it
    cpc,        \* position of every caller thread
    ccall,      \* the call every caller thread is in
    ncalls,     \* the number of calls the caller threads have started
    cret,       \* what the last finished call of a caller gave
    enqueued,   \* history: the requests in the order they were put on queue
    served      \* history: the requests in the order the worker got them

VARIABLES
    keyring,     \* fingerprint of the user's keypair in gnupg_home, or NoKey
    secretFile,  \* the file at secret_path
    gpg,         \* self._gpg has been set
    fingerprint, \* self._fingerprint, or Unset
    secret,      \* self._secret, or Unset
    sdb,         \* Soledad._db is an open database
    calls,       \* what the last operation called: retrieval, generation...
    pre,         \* history: disk and instance before the last operation
    lastOp,      \* history: the last operation
    lastExc,     \* history: the exception the last operation raised
    lastRet,     \* history: the value the last operation returned
    ctext,       \* the ciphertext the last encrypt_symmetric returned
    encArgs,     \* history: document id and data of that encrypt_symmetric
    decRes       \* history: document id and result of the last decrypt_symmetric
                 \* of that ciphertext

proxyVars == <<db, storeState, docs, inStore, queue, stopped, lock, wpc, cur,
               res, reply, cpc, ccall, ncalls, cret, enqueued, served>>

symVars == <<ctext, encArgs, decRes>>

keyVars == <<keyring, secretFile, gpg, fingerprint, secret, sdb, calls, pre,
             lastOp, lastExc, lastRet, symVars>>

vars == <<proxyVars, keyVars>>

(***************************************************************************)
(* The database object behind the wrapper.                                 *)
(***************************************************************************)
\* getattr(self._db, mth, None)
GetAttr(mth) ==
    IF mth \in {PutName, CloseName} THEN MethodAttr
    ELSE IF mth = SizeName THEN IntVal(Len(docs))
    ELSE None

\* truth value of a Python object, as tested by "if not attr"
Truthy(v) ==
    CASE v.tag = "None" -> FALSE
      [] v.tag = "int" -> v.n # 0
      [] OTHER -> TRUE

Callable(v) == v.tag = "method"

(***************************************************************************)
(* SQLCipherWrapper.__init__                                               *)
(***************************************************************************)
InitProxy ==
    /\ db = "None"
    /\ storeState = "unopened"
    /\ docs = <<>>
    /\ inStore = {}
    /\ queue = <<>>
    /\ stopped = FALSE
    /\ lock = FALSE
    /\ wpc = "start"
    /\ cur = NoReq
    /\ res = None
    /\ reply = [q \in Qs |-> <<>>]
    /\ cpc = [c \in Callers |-> "idle"]
    /\ ccall = [c \in Callers |-> NoReq]
    /\ ncalls = 0
    /\ cret = [c \in Callers |-> None]
    /\ enqueued = <<>>
    /\ served = <<>>

(***************************************************************************)
(* SQLCipherWrapper.run, the worker thread                                 *)
(***************************************************************************)
\* run() calls _init_db(): sqlcipher.open starts
WorkerInitDbBegin ==
    /\ wpc = "start"
    /\ wpc' = "init_db"
    /\ inStore' = inStore \cup {[thread |-> Worker, mth |-> OpenName, q |-> NoQ]}
    /\ UNCHANGED <<db, storeState, docs, queue, stopped, lock, cur, res,
                   reply, cpc, ccall, ncalls, cret, enqueued, served,
                   keyVars>>

\* sqlcipher.open returns and self._db is set
WorkerInitDbEnd ==
    /\ wpc = "init_db"
    /\ db' = "db"
    /\ storeState' = "open"
    /\ inStore' = inStore \ {[thread |-> Worker, mth |-> OpenName, q |-> NoQ]}
    /\ wpc' = "acquire"
    /\ UNCHANGED <<docs, queue, stopped, lock, cur, res, reply, cpc, ccall,
                   ncalls, cret, enqueued, served,
                   keyVars>>

\* top of the loop: self._db is set once _init_db has returned, so the
\* sleep is not taken; self._lock.acquire() blocks while the lock is held
WorkerAcquire ==
    /\ wpc = "acquire"
    /\ ~lock
    /\ lock' = TRUE
    /\ wpc' = "get"
    /\ UNCHANGED <<db, storeState, docs, inStore, queue, stopped, cur, res,
                   reply, cpc, ccall, ncalls, cret, enqueued, served,
                   keyVars>>

\* a get that leaves the request on the queue
QueuePopKeep(qu) == [item |-> Head(qu), rest |-> qu]
\* a get from the wrong end of the queue
QueuePopLast(qu) == [item |-> qu[Len(qu)], rest |-> SubSeq(qu, 1, Len(qu) - 1)]
\* Queue.Queue.get(): the oldest request, which leaves the queue
QueuePop(qu) == [item |-> Head(qu), rest |-> Tail(qu)]

\* mth, q, wrargs = self._queue.get() blocks while the queue is empty
WorkerGet ==
    /\ wpc = "get"
    /\ queue # <<>>
    /\ cur' = QueuePop(queue).item
    /\ queue' = QueuePop(queue).rest
    /\ served' = Append(served, QueuePop(queue).item.q)
    /\ wpc' = "dispatch"
    /\ UNCHANGED <<db, storeState, docs, inStore, stopped, lock, res, reply,
                   cpc, ccall, ncalls, cret, enqueued,
                   keyVars>>

\* if mth == "__end_thread": break
IsEndRequest(mth) == mth = EndThread

WorkerBreak ==
    /\ wpc = "dispatch"
    /\ IsEndRequest(cur.mth)
    /\ wpc' = "exit"
    /\ UNCHANGED <<db, storeState, docs, inStore, queue, stopped, lock, cur,
                   res, reply, cpc, ccall, ncalls, cret, enqueued, served,
                   keyVars>>

\* a worker that answers None to a request for an unknown attribute
WorkerNoAttrReplies ==
    /\ wpc = "dispatch"
    /\ ~IsEndRequest(cur.mth)
    /\ ~Truthy(GetAttr(cur.mth))
    /\ res' = None
    /\ wpc' = "reply"
    /\ UNCHANGED <<db, storeState, docs, inStore, queue, stopped, lock, cur,
                   reply, cpc, ccall, ncalls, cret, enqueued, served,
                   keyVars>>

\* if not attr: log the error and continue, with the lock still held
WorkerNoAttr ==
    /\ wpc = "dispatch"
    /\ ~IsEndRequest(cur.mth)
    /\ ~Truthy(GetAttr(cur.mth))
    /\ wpc' = "acquire"
    /\ UNCHANGED <<db, storeState, docs, inStore, queue, stopped, lock, cur,
                   res, reply, cpc, ccall, ncalls, cret, enqueued, served,
                   keyVars>>

\* res = None; callable(attr): the call attr(*args, **kwargs) starts
WorkerCallBegin ==
    /\ wpc = "dispatch"
    /\ ~IsEndRequest(cur.mth)
    /\ Truthy(GetAttr(cur.mth))
    /\ Callable(GetAttr(cur.mth))
    /\ res' = None
    /\ inStore' = inStore \cup {[thread |-> Worker, mth |-> cur.mth, q |-> cur.q]}
    /\ wpc' = "call"
    /\ UNCHANGED <<db, storeState, docs, queue, stopped, lock, cur, reply,
                   cpc, ccall, ncalls, cret, enqueued, served,
                   keyVars>>

\* the call returns, or raises and the exception is logged: res stays None.
\* A call on a closed database raises; the database may also raise for
\* reasons of its own.
WorkerCallEnd ==
    /\ wpc = "call"
    /\ inStore' = inStore \ {[thread |-> Worker, mth |-> cur.mth, q |-> cur.q]}
    /\ wpc' = "reply"
    /\ \/ /\ storeState = "open"
          /\ docs' = Append(docs, cur.q)
          /\ res' = Rev(cur.q)
       \/ /\ docs' = docs
          /\ res' = None
    /\ UNCHANGED <<db, storeState, queue, stopped, lock, cur, reply, cpc,
                   ccall, ncalls, cret, enqueued, served,
                   keyVars>>

\* non-callable attribute: res = attr
WorkerReadAttr ==
    /\ wpc = "dispatch"
    /\ ~IsEndRequest(cur.mth)
    /\ Truthy(GetAttr(cur.mth))
    /\ ~Callable(GetAttr(cur.mth))
    /\ res' = GetAttr(cur.mth)
    /\ wpc' = "reply"
    /\ UNCHANGED <<db, storeState, docs, inStore, queue, stopped, lock, cur,
                   reply, cpc, ccall, ncalls, cret, enqueued, served,
                   keyVars>>

\* a worker that puts nothing on q when res is None
WorkerReplySkipNone ==
    /\ wpc = "reply"
    /\ reply' = IF res = None THEN reply
                ELSE [reply EXCEPT ![cur.q] = Append(@, res)]
    /\ wpc' = "release"
    /\ UNCHANGED <<db, storeState, docs, inStore, queue, stopped, lock, cur,
                   res, cpc, ccall, ncalls, cret, enqueued, served,
                   keyVars>>

\* a worker that puts every result on one reply queue
WorkerReplyShared ==
    /\ wpc = "reply"
    /\ reply' = [reply EXCEPT ![1] = Append(@, res)]
    /\ wpc' = "release"
    /\ UNCHANGED <<db, storeState, docs, inStore, queue, stopped, lock, cur,
                   res, cpc, ccall, ncalls, cret, enqueued, served,
                   keyVars>>

\* q.put(res)
WorkerReply ==
    /\ wpc = "reply"
    /\ reply' = [reply EXCEPT ![cur.q] = Append(@, res)]
    /\ wpc' = "release"
    /\ UNCHANGED <<db, storeState, docs, inStore, queue, stopped, lock, cur,
                   res, cpc, ccall, ncalls, cret, enqueued, served,
                   keyVars>>

\* self._lock.release(), then the next iteration
WorkerRelease ==
    /\ wpc = "release"
    /\ lock' = FALSE
    /\ wpc' = "acquire"
    /\ UNCHANGED <<db, storeState, docs, inStore, queue, stopped, cur, res,
                   reply, cpc, ccall, ncalls, cret, enqueued, served,
                   keyVars>>

\* after the loop: self._stopped.set() and the thread ends
WorkerExit ==
    /\ wpc = "exit"
    /\ stopped' = TRUE
    /\ wpc' = "done"
    /\ UNCHANGED <<db, storeState, docs, inStore, queue, lock, cur, res,
                   reply, cpc, ccall, ncalls, cret, enqueued, served,
                   keyVars>>

(***************************************************************************)
(* Caller threads: SQLCipherWrapper.__getattr__ and close                  *)
(***************************************************************************)
\* the worker has taken the request a close() posted
CloseServed ==
    \E c \in Callers, i \in 1..Len(served) :
        ccall[c].isClose /\ served[i] = ccall[c].q

\* wrapper.<mth>(...): __getattr__ gives partial(__proxied_mth, mth), which
\* the caller invokes
Invoke(c, mth) ==
    /\ cpc[c] = "idle"
    /\ ncalls < MaxCalls
    /\ ncalls' = ncalls + 1
    /\ ccall' = [ccall EXCEPT ![c] =
                   [mth |-> mth, q |-> ncalls + 1,
                    afterClose |-> CloseServed,
                    isClose |-> FALSE, early |-> FALSE]]
    /\ cpc' = [cpc EXCEPT ![c] = "check"]
    /\ UNCHANGED <<db, storeState, docs, inStore, queue, stopped, lock, wpc,
                   cur, res, reply, cret, enqueued, served,
                   keyVars>>

\* __proxied_mth: if not self._stopped.isSet(); otherwise it returns None
CallerCheck(c) ==
    /\ cpc[c] = "check"
    /\ IF ~stopped
       THEN /\ cpc' = [cpc EXCEPT ![c] = "put"]
            /\ UNCHANGED cret
       ELSE /\ cpc' = [cpc EXCEPT ![c] = "idle"]
            /\ cret' = [cret EXCEPT ![c] = None]
    /\ UNCHANGED <<db, storeState, docs, inStore, queue, stopped, lock, wpc,
                   cur, res, reply, ccall, ncalls, enqueued, served,
                   keyVars>>

\* q = Queue.Queue(); self._queue.put((method, q, wrargs)); the request
\* remembers (history) whether it was put before the database was opened
CallerPut(c) ==
    /\ cpc[c] = "put"
    /\ ccall' = [ccall EXCEPT ![c].early = (db = "None")]
    /\ queue' = Append(queue, ccall'[c])
    /\ enqueued' = Append(enqueued, ccall[c].q)
    /\ cpc' = [cpc EXCEPT ![c] = "wait"]
    /\ UNCHANGED <<db, storeState, docs, inStore, stopped, lock, wpc, cur,
                   res, reply, ncalls, cret, served,
                   keyVars>>

\* res = q.get() blocks until the worker has put a value on q; return res
CallerGet(c) ==
    /\ cpc[c] = "wait"
    /\ reply[ccall[c].q] # <<>>
    /\ cret' = [cret EXCEPT ![c] = Head(reply[ccall[c].q])]
    /\ cpc' = [cpc EXCEPT ![c] = "idle"]
    /\ UNCHANGED <<db, storeState, docs, inStore, queue, stopped, lock, wpc,
                   cur, res, reply, ccall, ncalls, enqueued, served,
                   keyVars>>

\* close(): self._db is an instance attribute, found without __getattr__, so
\* self._db.close() runs in the calling thread.  While self._db is still
\* None the call raises AttributeError.
CloseBegin(c) ==
    /\ cpc[c] = "idle"
    /\ ncalls < MaxCalls
    /\ ncalls' = ncalls + 1
    /\ ccall' = [ccall EXCEPT ![c] =
                   [mth |-> Mangle(EndThread), q |-> ncalls + 1,
                    afterClose |-> CloseServed,
                    isClose |-> TRUE, early |-> FALSE]]
    /\ IF db = "None"
       THEN /\ cpc' = [cpc EXCEPT ![c] = "idle"]
            /\ cret' = [cret EXCEPT ![c] =
                          [tag |-> "AttributeError", q |-> NoQ, n |-> 0]]
            /\ UNCHANGED inStore
       ELSE /\ cpc' = [cpc EXCEPT ![c] = "closing"]
            /\ inStore' = inStore \cup {[thread |-> c, mth |-> CloseName, q |-> NoQ]}
            /\ UNCHANGED cret
    /\ UNCHANGED <<db, storeState, docs, queue, stopped, lock, wpc, cur, res,
                   reply, enqueued, served,
                   keyVars>>

\* self._db.close() returns and close() goes on to self.__end_thread(),
\* which is __getattr__ of the mangled name; or the database raises and the
\* exception leaves close()
CloseDbEnd(c) ==
    /\ cpc[c] = "closing"
    /\ inStore' = inStore \ {[thread |-> c, mth |-> CloseName, q |-> NoQ]}
    /\ \/ /\ storeState' = "closed"
          /\ cpc' = [cpc EXCEPT ![c] = "check"]
          /\ UNCHANGED cret
       \/ /\ UNCHANGED storeState
          /\ cpc' = [cpc EXCEPT ![c] = "idle"]
          /\ cret' = [cret EXCEPT ![c] =
                        [tag |-> "Exception", q |-> NoQ, n |-> 0]]
    /\ UNCHANGED <<db, docs, queue, stopped, lock, wpc, cur, res, reply,
                   ccall, ncalls, enqueued, served,
                   keyVars>>

(***************************************************************************)
(* Soledad: key material on disk and in the instance                       *)
(***************************************************************************)
Fingerprints == 1..NumFingerprints
Secrets == 1..NumSecrets
\* find_key_by_email raises LookupError: the keyring has no key of the user
NoKey == 0
\* str() of a failed gpg result, and the content of a truncated file
Empty == 0
\* an instance attribute that has not been assigned: reading it raises
\* AttributeError
Unset == -1
\* document ids and document contents
DocIds == 1..NumDocIds
Data == 1..NumData

\* os.path.isfile(self.secret_path) is False
NoFile == [kind |-> "none", to |-> NoKey, body |-> Empty]
PlainFile(b) == [kind |-> "plain", to |-> NoKey, body |-> b]
SymFile(b) == [kind |-> "sym", to |-> NoKey, body |-> b]
\* gpg.encrypt(data, fp): data encrypted to the key with fingerprint fp
AsymFile(fp, b) == [kind |-> "asym", to |-> fp, body |-> b]

Files ==
    {NoFile} \cup {PlainFile(b) : b \in Secrets} \cup {SymFile(b) : b \in Secrets}
    \cup {AsymFile(fp, b) : fp \in Fingerprints, b \in Secrets}

\* gpg.is_encrypted_asym(content)
IsEncryptedAsym(f) == f.kind = "asym"
\* gpg.encrypted_to(content)['fingerprint']
EncryptedTo(f) == f.to
\* str(gpg.decrypt(content)): the plaintext when the private key is in the
\* keyring, otherwise the empty string
Decrypt(kr, f) == IF f.kind = "asym" /\ f.to = kr THEN f.body ELSE Empty

\* what the collaborators do during one operation
RetrieveResults == {"ok", "fail"}
IoResults == {"ok", "open_fails", "write_fails"}
Envs == [retrieve : RetrieveResults, newfp : Fingerprints, rnd : Secrets,
         io : IoResults]

\* outcome of a method: the state it leaves, its return value, its exception
Return(st, v) == [st |-> st, ret |-> v, exc |-> "none"]
Raise(st, e) == [st |-> st, ret |-> FALSE, exc |-> e]
Called(st, what) == [st EXCEPT !.calls = @ \cup {what}]

\* _has_openpgp_keypair that caches the fingerprint of the key it found
HasOpenpgpKeypairCaching(st) ==
    IF ~st.gpg THEN Raise(st, "AttributeError")
    ELSE IF st.keyring = NoKey THEN Return(st, FALSE)
    ELSE Return([st EXCEPT !.fingerprint = st.keyring], TRUE)

\* Soledad._has_openpgp_keypair
HasOpenpgpKeypair(st) ==
    IF ~st.gpg THEN Raise(st, "AttributeError")
    ELSE Return(st, st.keyring # NoKey)

\* _has_secret without the comparison of the recipient with self._fingerprint
HasSecretAnyRecipient(st) ==
    IF st.secretFile = NoFile THEN Return(st, FALSE)
    ELSE IF ~st.gpg THEN Raise(st, "AttributeError")
    ELSE IF ~IsEncryptedAsym(st.secretFile)
         THEN Raise(st, "DocumentNotEncrypted")
    ELSE Return(st, TRUE)

\* Soledad._has_secret
HasSecret(st) ==
    IF st.secretFile = NoFile THEN Return(st, FALSE)
    ELSE IF ~st.gpg THEN Raise(st, "AttributeError")
    ELSE IF ~IsEncryptedAsym(st.secretFile)
         THEN Raise(st, "DocumentNotEncrypted")
    ELSE IF st.fingerprint = Unset THEN Raise(st, "AttributeError")
    ELSE IF EncryptedTo(st.secretFile) # st.fingerprint
         THEN Raise(st, "KeyDoesNotExist")
    ELSE Return(st, TRUE)

\* Soledad._load_secret
LoadSecret(st) ==
    LET h == HasSecret(st) IN
    IF h.exc # "none" THEN h
    ELSE IF ~h.ret THEN Raise(st, "KeyDoesNotExist")
    ELSE Return([st EXCEPT !.secret = Decrypt(st.keyring, st.secretFile)],
                FALSE)

\* the file after open(self.secret_path, 'w'), write and close
WriteFile(st, io, content) ==
    CASE io = "ok" -> content
      [] io = "open_fails" -> st.secretFile
      [] OTHER -> PlainFile(Empty)

\* _gen_secret without its check for an existing secret
GenSecretOverwrite(st, env) ==
    LET st0 == Called(st, "gen_secret")
        st1 == [st0 EXCEPT !.secret = env.rnd]
    IN
    IF ~st1.gpg \/ st1.fingerprint = Unset
    THEN Raise(st1, "AttributeError")
    ELSE LET st2 == [st1 EXCEPT !.secretFile =
                        WriteFile(st1, env.io,
                                  AsymFile(st1.fingerprint, env.rnd))]
         IN IF env.io = "ok" THEN Return(st2, FALSE)
            ELSE Raise(st2, "IOError")

\* _gen_secret that replaces a secret file it cannot use
GenSecretReplaceInvalid(st, env) ==
    LET st0 == Called(st, "gen_secret")
        h == HasSecret(st0)
        st1 == [st0 EXCEPT !.secret = env.rnd]
    IN
    IF h.exc = "none" /\ h.ret THEN Raise(st0, "KeyAlreadyExists")
    ELSE IF ~st1.gpg \/ st1.fingerprint = Unset
         THEN Raise(st1, "AttributeError")
    ELSE LET st2 == [st1 EXCEPT !.secretFile =
                        WriteFile(st1, env.io,
                                  AsymFile(st1.fingerprint, env.rnd))]
         IN IF env.io = "ok" THEN Return(st2, FALSE)
            ELSE Raise(st2, "IOError")

\* Soledad._gen_secret
GenSecret(st, env) ==
    LET st0 == Called(st, "gen_secret")
        h == HasSecret(st0)
        st1 == [st0 EXCEPT !.secret = env.rnd]
    IN
    IF h.exc # "none" THEN h
    ELSE IF h.ret THEN Raise(st0, "KeyAlreadyExists")
    ELSE IF ~st1.gpg \/ st1.fingerprint = Unset
         THEN Raise(st1, "AttributeError")
    ELSE LET st2 == [st1 EXCEPT !.secretFile =
                        WriteFile(st1, env.io,
                                  AsymFile(st1.fingerprint, env.rnd))]
         IN IF env.io = "ok" THEN Return(st2, FALSE)
            ELSE Raise(st2, "IOError")

\* Soledad._gen_openpgp_keypair
GenOpenpgpKeypair(st, env) ==
    LET st0 == Called(st, "gen_keypair")
        h == HasOpenpgpKeypair(st0)
    IN
    IF h.exc # "none" THEN h
    ELSE IF h.ret THEN Raise(st0, "KeyAlreadyExists")
    ELSE Return([st0 EXCEPT !.keyring = env.newfp], FALSE)

\* Soledad._load_openpgp_keypair
LoadOpenpgpKeypair(st) ==
    LET h == HasOpenpgpKeypair(st) IN
    IF h.exc # "none" THEN h
    ELSE IF ~h.ret THEN Raise(st, "KeyDoesNotExist")
    ELSE Return([st EXCEPT !.fingerprint = st.keyring], FALSE)

\* Soledad._has_keys
HasKeys(st) ==
    LET h == HasOpenpgpKeypair(st) IN
    IF h.exc # "none" THEN h
    ELSE IF ~h.ret THEN h
    ELSE HasSecret(st)

\* Soledad._load_keys
LoadKeys(st) ==
    LET k == LoadOpenpgpKeypair(st) IN
    IF k.exc # "none" THEN k
    ELSE LoadSecret(k.st)

\* Soledad._init_keys, second half: load/generate secret
InitKeysSecret(st, env) ==
    LET h == HasSecret(st) IN
    IF h.exc # "none" THEN h
    ELSE IF ~h.ret
         THEN LET g == GenSecret(st, env) IN
              IF g.exc # "none" THEN g ELSE LoadSecret(g.st)
    ELSE LoadSecret(st)

\* Soledad._init_keys
InitKeys(st, env) ==
    LET h == HasOpenpgpKeypair(st)
        g == IF h.exc = "none" /\ ~h.ret THEN GenOpenpgpKeypair(st, env)
             ELSE h
        k == IF g.exc = "none" THEN LoadOpenpgpKeypair(g.st) ELSE g
    IN
    IF k.exc # "none" THEN k
    ELSE InitKeysSecret(k.st, env)

\* Soledad._retrieve_keys: the request is sent and its answer is dropped
RetrieveKeys(st, env) ==
    LET st0 == Called(st, "retrieve") IN
    IF env.retrieve = "ok" THEN Return(st0, FALSE)
    ELSE Raise(Called(st0, "retrieve_failed"), "Exception")

\* self._send_keys(): Soledad has no such method
SendKeys(st) == Raise(st, "AttributeError")

\* Soledad._init_db
SoledadInitDb(st) == Return([st EXCEPT !.sdb = TRUE], FALSE)

\* a passphrase argument left at its default None
NoPass == <<>>
\* no ciphertext has been produced yet
NoCipher == [kind |-> "none", to |-> NoKey, pass |-> NoPass, body |-> Empty]

\* str(gpg.encrypt(data, fp, passphrase=.., symmetric=..)): with symmetric
\* the data is locked with the passphrase, otherwise it is encrypted to fp
GpgEncrypt(data, fp, passphrase, symmetric) ==
    IF symmetric
    THEN [kind |-> "sym", to |-> NoKey, pass |-> passphrase, body |-> data]
    ELSE [kind |-> "asym", to |-> fp, pass |-> NoPass, body |-> data]

\* str(gpg.decrypt(data, passphrase=..)): the plaintext when the passphrase
\* (symmetric) or the private key (asymmetric) fits, otherwise the empty string
GpgDecrypt(kr, c, passphrase) ==
    IF c.kind = "sym" THEN (IF c.pass = passphrase THEN c.body ELSE Empty)
    ELSE IF c.kind = "asym" /\ c.to = kr /\ kr # NoKey THEN c.body
    ELSE Empty

\* Soledad._hmac_passphrase: the digest of (key, message), one per pair
HmacPassphrase(st, docId) ==
    IF st.secret = Unset THEN Raise(st, "AttributeError")
    ELSE Return(st, <<st.secret, docId>>)

\* Soledad.encrypt
SoledadEncrypt(st, data, passphrase, symmetric) ==
    IF ~st.gpg \/ st.fingerprint = Unset THEN Raise(st, "AttributeError")
    ELSE Return(st, GpgEncrypt(data, st.fingerprint, passphrase, symmetric))

\* Soledad.encrypt_symmetric
EncryptSymmetric(st, docId, data) ==
    LET h == HmacPassphrase(st, docId) IN
    IF h.exc # "none" THEN h
    ELSE SoledadEncrypt(st, data, h.ret, TRUE)

\* Soledad.decrypt
SoledadDecrypt(st, data, passphrase) ==
    IF ~st.gpg THEN Raise(st, "AttributeError")
    ELSE Return(st, GpgDecrypt(st.keyring, data, passphrase))

\* decrypt_symmetric with the passphrase of the empty document id
DecryptSymmetricNoDocId(st, docId, data) ==
    LET h == HmacPassphrase(st, Empty) IN
    IF h.exc # "none" THEN h
    ELSE SoledadDecrypt(st, data, h.ret)

\* Soledad.decrypt_symmetric
DecryptSymmetric(st, docId, data) ==
    LET h == HmacPassphrase(st, docId) IN
    IF h.exc # "none" THEN h
    ELSE SoledadDecrypt(st, data, h.ret)

\* Soledad._bootstrap, stage 1: _init_keys and _send_keys
BootstrapStage1(st, env) ==
    LET i == InitKeys(st, env) IN
    IF i.exc # "none" THEN i ELSE SendKeys(i.st)

\* stage 3 with the database opened before the keys are loaded
BootstrapStage3DbFirst(st) ==
    LET d == SoledadInitDb(st) IN LoadKeys(d.st)

\* Soledad._bootstrap, stage 3: _load_keys and _init_db
BootstrapStage3(st) ==
    LET l == LoadKeys(st) IN
    IF l.exc # "none" THEN l ELSE SoledadInitDb(l.st)

\* Soledad._bootstrap
Bootstrap(st, env) ==
    LET st0 == [st EXCEPT !.gpg = TRUE]
        h == HasKeys(st0)
    IN
    IF h.exc # "none" THEN h
    ELSE IF h.ret THEN BootstrapStage3(st0)
    ELSE LET r == RetrieveKeys(st0, env) IN
         IF r.exc = "none" THEN BootstrapStage3(r.st)
         ELSE LET g == BootstrapStage1(r.st, env) IN
              IF g.exc # "none" THEN g ELSE BootstrapStage3(g.st)

(***************************************************************************)
(* One Soledad instance, created with initialize=False, and its disk       *)
(***************************************************************************)
KeyState ==
    [keyring |-> keyring, secretFile |-> secretFile, gpg |-> gpg,
     fingerprint |-> fingerprint, secret |-> secret, sdb |-> sdb,
     calls |-> {}]

FreshKeyState(kr, f) ==
    [keyring |-> kr, secretFile |-> f, gpg |-> FALSE, fingerprint |-> Unset,
     secret |-> Unset, sdb |-> FALSE, calls |-> {}]

\* the arguments and the result of a call that has not been made
NoArgs == [id |-> Empty, data |-> Empty, ready |-> FALSE]

InitKeyVars(kr, f) ==
    /\ keyring = kr
    /\ secretFile = f
    /\ gpg = FALSE
    /\ fingerprint = Unset
    /\ secret = Unset
    /\ sdb = FALSE
    /\ calls = {}
    /\ pre = FreshKeyState(kr, f)
    /\ lastOp = "init"
    /\ lastExc = "none"
    /\ lastRet = FALSE
    /\ ctext = NoCipher
    /\ encArgs = NoArgs
    /\ decRes = NoArgs

\* the operation op ran from the current state and had outcome r
Outcome(op, r) ==
    /\ keyring' = r.st.keyring
    /\ secretFile' = r.st.secretFile
    /\ gpg' = r.st.gpg
    /\ fingerprint' = r.st.fingerprint
    /\ secret' = r.st.secret
    /\ sdb' = r.st.sdb
    /\ calls' = r.st.calls
    /\ pre' = KeyState
    /\ lastOp' = op
    /\ lastExc' = r.exc
    /\ lastRet' = r.ret
    /\ UNCHANGED proxyVars

\* an operation of the key management: no data is encrypted or decrypted
Finish(op, r) == Outcome(op, r) /\ UNCHANGED symVars

DoBootstrap == \E env \in Envs : Finish("bootstrap", Bootstrap(KeyState, env))
DoLoadSecret == Finish("load_secret", LoadSecret(KeyState))
DoGenSecret == \E env \in Envs : Finish("gen_secret", GenSecret(KeyState, env))
DoHasSecret == Finish("has_secret", HasSecret(KeyState))
DoHasKeypair == Finish("has_keypair", HasOpenpgpKeypair(KeyState))

\* the manager has completed a bootstrap
IsReady == sdb /\ gpg /\ fingerprint # Unset /\ secret # Unset

\* a caller encrypts data for a document and keeps the ciphertext
DoEncryptSymmetric ==
    \E id \in DocIds, data \in Data :
        LET r == EncryptSymmetric(KeyState, id, data) IN
        /\ Outcome("encrypt_symmetric", [r EXCEPT !.ret = FALSE])
        /\ ctext' = IF r.exc = "none" THEN r.ret ELSE ctext
        /\ encArgs' = IF r.exc = "none"
                      THEN [id |-> id, data |-> data, ready |-> IsReady]
                      ELSE encArgs
        /\ decRes' = IF r.exc = "none" THEN NoArgs ELSE decRes

\* a caller decrypts the ciphertext it kept, for a document
DoDecryptSymmetric ==
    /\ ctext # NoCipher
    /\ \E id \in DocIds :
        LET r == DecryptSymmetric(KeyState, id, ctext) IN
        /\ Outcome("decrypt_symmetric", [r EXCEPT !.ret = FALSE])
        /\ decRes' = [id |-> id,
                      data |-> IF r.exc = "none" THEN r.ret ELSE Empty,
                      ready |-> FALSE]
        /\ UNCHANGED <<ctext, encArgs>>

\* the wrapper and its callers
Init ==
    /\ InitProxy
    /\ InitKeyVars(NoKey, NoFile)

Next ==
    \/ WorkerInitDbBegin
    \/ WorkerInitDbEnd
    \/ WorkerAcquire
    \/ WorkerGet
    \/ WorkerBreak
    \/ WorkerNoAttr
    \/ WorkerCallBegin
    \/ WorkerCallEnd
    \/ WorkerReadAttr
    \/ WorkerReply
    \/ WorkerRelease
    \/ WorkerExit
    \/ \E c \in Callers, mth \in MethodNames : Invoke(c, mth)
    \/ \E c \in Callers : CallerCheck(c)
    \/ \E c \in Callers : CallerPut(c)
    \/ \E c \in Callers : CallerGet(c)
    \/ \E c \in Callers : CloseBegin(c)
    \/ \E c \in Callers : CloseDbEnd(c)

Spec == Init /\ [][Next]_vars

\* one Soledad instance over every content of the disk
InitKeysSpec ==
    /\ InitProxy
    /\ \E kr \in {NoKey} \cup Fingerprints, f \in Files : InitKeyVars(kr, f)

NextKeys ==
    \/ DoBootstrap
    \/ DoLoadSecret
    \/ DoGenSecret
    \/ DoHasSecret
    \/ DoHasKeypair
    \/ DoEncryptSymmetric
    \/ DoDecryptSymmetric

SpecKeys == InitKeysSpec /\ [][NextKeys]_vars

(***************************************************************************)
(* Properties of the wrapper                                               *)
(***************************************************************************)
\* the calls in progress that serve a request posted through __getattr__
ProxiedCalls == {e \in inStore : e.q # NoQ}

\* the requests on the queue, oldest first
QueueQs == [i \in 1..Len(queue) |-> queue[i].q]

\* position of request q in the sequence sq, 0 when it is not there
Pos(sq, q) ==
    IF \E i \in 1..Len(sq) : sq[i] = q
    THEN CHOOSE i \in 1..Len(sq) : sq[i] = q
    ELSE 0

\* C1: the database serves the proxied requests one at a time: never two
\* proxied calls in progress at once, every write is applied at most once,
\* and a write that was answered with its revision is in the database.
SerialExecution ==
    /\ Cardinality(ProxiedCalls) <= 1
    /\ \A i, j \in 1..Len(docs) : i # j => docs[i] # docs[j]
    /\ \A q \in Qs :
         (\E k \in 1..Len(reply[q]) : reply[q][k].tag = "rev")
         => \E i \in 1..Len(docs) : docs[i] = q

\* C1 witness: the worker is inside the put of one caller while the put of
\* another caller waits on the queue.
SerialExecutionWitness ==
    /\ wpc = "call"
    /\ cur.mth = PutName
    /\ Len(queue) = 1
    /\ queue[1].mth = PutName

\* C2: requests are taken from the queue in the order they were put on it,
\* none is skipped, and the writes land in that order.
FifoOrder ==
    /\ served \o QueueQs = enqueued
    /\ \A i, j \in 1..Len(docs) :
         i < j => Pos(enqueued, docs[i]) < Pos(enqueued, docs[j])

\* C2 witness: two requests were on the queue together and both have been
\* taken and executed, oldest first.
FifoOrderWitness ==
    /\ Len(served) = 2
    /\ Len(docs) = 2
    /\ \E c1, c2 \in Callers :
         /\ c1 # c2
         /\ ccall[c1].q = served[1]
         /\ ccall[c2].q = served[2]
         /\ cpc[c1] = "wait"
         /\ cpc[c2] = "wait"

\* C3: every call on the database is made by the worker thread.
OnlyWorkerTouchesStore == \A e \in inStore : e.thread = Worker

\* C4: when the worker takes the request close() posted, it leaves its loop
\* (and then sets the stopped flag and ends).
CloseRequestEndsLoop ==
    [][(wpc = "dispatch" /\ cur.isClose) => wpc' = "exit"]_vars

\* C5: once close() has closed the database, no request reaches the
\* database: no proxied call on it starts.
NoCallAfterClose ==
    [][storeState = "closed"
       => {e \in inStore' : e.q # NoQ} \subseteq inStore]_vars

\* C6: a call made through the wrapper after the worker has taken the
\* request of close() is not put on the queue to wait, and nothing is left on
\* the queue of a worker that has ended.
AfterCloseFailsFast ==
    /\ \A c \in Callers :
         (ccall[c].afterClose /\ ~ccall[c].isClose) => cpc[c] # "wait"
    /\ wpc = "done" => queue = <<>>

\* the write of request q is in the database
InDocs(q) == \E i \in 1..Len(docs) : docs[i] = q

\* the worker has taken request q and is through with it
Done(q) ==
    /\ \E i \in 1..Len(served) : served[i] = q
    /\ ~(cur.q = q /\ wpc \in {"dispatch", "call", "reply"})

\* C16: after a request that names a method the database does not have, the
\* worker is not stopped by anything but an empty queue: it does not wait
\* for its lock.
WorkerBlocksOnlyOnQueue ==
    (wpc = "acquire" /\ cur.mth = NoSuchName) => ~lock

MissingMethodNoReply ==
    \A c \in Callers :
        (/\ ccall[c].mth = NoSuchName
         /\ \E i \in 1..Len(enqueued) : enqueued[i] = ccall[c].q)
        => /\ reply[ccall[c].q] = <<>>
           /\ cpc[c] = "wait"
           /\ ~InDocs(ccall[c].q)
           /\ \A e \in inStore : e.q # ccall[c].q

\* C18 witness: the worker has taken such a request and gone back to the
\* top of its loop, and the caller is still waiting.
MissingMethodNoReplyWitness ==
    \E c \in Callers :
        /\ ccall[c].mth = NoSuchName
        /\ Done(ccall[c].q)
        /\ cur.q = ccall[c].q
        /\ wpc = "acquire"
        /\ cpc[c] = "wait"

\* C19: a request that names the non-callable attribute size, once the
\* worker is through with it, has the value of the attribute on its reply
\* queue, whatever the value.
AttributeValueReplied ==
    \A c \in Callers :
        (ccall[c].mth = SizeName /\ Done(ccall[c].q))
        => /\ Len(reply[ccall[c].q]) = 1
           /\ reply[ccall[c].q][1].tag = "int"

\* C20: every request is taken from the queue at most once; a reply queue
\* gets at most one value, and a revision on it is the revision of its own
\* request; a put that returned normally has its revision on its reply queue
\* as soon as the worker has passed q.put; the caller returns the revision of
\* its own request; and no request is taken or executed before the database
\* has been opened.
ExactlyOneOwnReply ==
    /\ \A i, j \in 1..Len(served) : i # j => served[i] # served[j]
    /\ \A q \in Qs :
         /\ Len(reply[q]) <= 1
         /\ \A k \in 1..Len(reply[q]) :
              reply[q][k].tag = "rev" => reply[q][k].q = q
         /\ InDocs(q)
            => \/ reply[q] = <<Rev(q)>>
               \/ cur.q = q /\ wpc = "reply" /\ res = Rev(q)
    /\ \A c \in Callers :
         (cpc[c] = "idle" /\ cret[c].tag = "rev") => cret[c].q = ccall[c].q
    /\ db = "None" => (served = <<>> /\ ProxiedCalls = {} /\ docs = <<>>)

\* C20 witness: a put that was on the queue before the database was opened
\* has been executed and its caller has returned its revision.
ExactlyOneOwnReplyWitness ==
    \E c \in Callers :
        /\ ccall[c].early
        /\ ccall[c].mth = PutName
        /\ InDocs(ccall[c].q)
        /\ reply[ccall[c].q] = <<Rev(ccall[c].q)>>
        /\ cpc[c] = "idle"
        /\ cret[c] = Rev(ccall[c].q)

(***************************************************************************)
(* Properties of the key management                                        *)
(***************************************************************************)
\* the instance is as __init__ left it
Fresh(p) == ~p.gpg /\ p.fingerprint = Unset /\ p.secret = Unset

\* the secret file holds a secret encrypted to the user's keypair
ValidBlob(p) ==
    /\ p.keyring # NoKey
    /\ p.secretFile.kind = "asym"
    /\ p.secretFile.to = p.keyring

\* the last operation was a bootstrap that completed
Ready ==
    /\ lastOp = "bootstrap"
    /\ lastExc = "none"
    /\ fingerprint # Unset
    /\ secret # Unset

Generated == calls \cap {"gen_keypair", "gen_secret"} # {}

\* C7: bootstrap of a fresh instance over a disk with the keypair and a
\* valid secret file completes with both loaded, without retrieval and
\* without generation.
BootstrapFromLocalKeys ==
    (lastOp = "bootstrap" /\ Fresh(pre) /\ ValidBlob(pre))
    => /\ Ready
       /\ fingerprint = pre.keyring
       /\ secret = pre.secretFile.body
       /\ "retrieve" \notin calls
       /\ ~Generated

\* C8: bootstrap of a fresh identity whose retrieval fails generates the
\* keypair and the secret file, publishes them and completes (unless the
\* file cannot be written).
BootstrapGenerates ==
    (/\ lastOp = "bootstrap"
     /\ Fresh(pre)
     /\ pre.keyring = NoKey
     /\ pre.secretFile = NoFile
     /\ "retrieve_failed" \in calls
     /\ lastExc # "IOError")
    => /\ Ready
       /\ keyring # NoKey
       /\ fingerprint = keyring
       /\ secretFile = AsymFile(keyring, secret)
       /\ "send_keys" \in calls

\* C9: bootstrap with local key material missing and a retrieval that
\* succeeds has the key material on disk afterwards, generates nothing and
\* completes.
BootstrapRetrieves ==
    (/\ lastOp = "bootstrap"
     /\ Fresh(pre)
     /\ (pre.keyring = NoKey \/ pre.secretFile = NoFile)
     /\ "retrieve" \in calls
     /\ "retrieve_failed" \notin calls)
    => /\ Ready
       /\ ~Generated
       /\ ValidBlob(KeyState)

\* C10: with a secret file that is not asymmetrically encrypted, bootstrap
\* and load_secret (on an instance that has its gpg wrapper) raise
\* DocumentNotEncrypted, load nothing and leave the file alone.
NotEncryptedAborts ==
    (/\ pre.secretFile.kind \in {"plain", "sym"}
     /\ \/ lastOp = "bootstrap"
        \/ lastOp = "load_secret" /\ pre.gpg)
    => /\ lastExc = "DocumentNotEncrypted"
       /\ secret = pre.secret
       /\ secretFile = pre.secretFile
       /\ ~Ready

\* the secret file of p is encrypted to the fingerprint p has cached
BlobForCachedFingerprint(p) ==
    /\ p.gpg
    /\ p.fingerprint # Unset
    /\ p.secretFile.kind = "asym"
    /\ p.secretFile.to = p.fingerprint

\* C11: gen_secret called while the secret file is encrypted to the cached
\* fingerprint raises KeyAlreadyExists and changes neither the file nor the
\* secret in memory.
GenSecretKeepsExisting ==
    (lastOp = "gen_secret" /\ BlobForCachedFingerprint(pre))
    => /\ lastExc = "KeyAlreadyExists"
       /\ secretFile = pre.secretFile
       /\ secret = pre.secret

\* C11 witness: gen_secret was refused over a valid file while a secret was
\* loaded in memory.
GenSecretKeepsExistingWitness ==
    /\ lastOp = "gen_secret"
    /\ BlobForCachedFingerprint(pre)
    /\ pre.secret # Unset
    /\ lastExc = "KeyAlreadyExists"

\* C12: on a manager that has completed bootstrap, decrypt_symmetric of what
\* encrypt_symmetric returned for the same document id gives the data back;
\* neither call changes the secret or writes the secret file.
SymmetricRoundTrip ==
    /\ (/\ lastOp = "decrypt_symmetric"
        /\ encArgs.ready
        /\ decRes.id = encArgs.id)
       => (lastExc = "none" /\ decRes.data = encArgs.data)
    /\ lastOp \in {"encrypt_symmetric", "decrypt_symmetric"}
       => (secretFile = pre.secretFile /\ secret = pre.secret)

\* C12 witness: a ready manager encrypted data for the second document id
\* and has decrypted the ciphertext for that id.
SymmetricRoundTripWitness ==
    /\ lastOp = "decrypt_symmetric"
    /\ encArgs.ready
    /\ encArgs.id = NumDocIds
    /\ decRes.id = encArgs.id
    /\ decRes.data = encArgs.data

\* C13: load_secret raises KeyDoesNotExist when there is no secret file,
\* DocumentNotEncrypted when the file is not asymmetrically encrypted (on an
\* instance that has its gpg wrapper), and KeyDoesNotExist when the file is
\* encrypted to another fingerprint than the cached one; a load_secret that
\* raises leaves the secret in memory as it was, and the secret changes only
\* by decrypting a file encrypted to the cached fingerprint.
LoadSecretFailures ==
    lastOp = "load_secret"
    => /\ pre.secretFile = NoFile => lastExc = "KeyDoesNotExist"
       /\ (pre.gpg /\ pre.secretFile.kind \in {"plain", "sym"})
          => lastExc = "DocumentNotEncrypted"
       /\ (/\ pre.gpg
           /\ pre.secretFile.kind = "asym"
           /\ pre.fingerprint # Unset
           /\ pre.secretFile.to # pre.fingerprint)
          => lastExc = "KeyDoesNotExist"
       /\ lastExc # "none" => secret = pre.secret
       /\ secret # pre.secret => BlobForCachedFingerprint(pre)
       /\ lastExc = "none"
          => (BlobForCachedFingerprint(pre) /\ secret = pre.secretFile.body)

\* C13 witness: load_secret refused a file that is encrypted to another
\* fingerprint than the one the instance has cached.
LoadSecretFailuresWitness ==
    /\ lastOp = "load_secret"
    /\ pre.secretFile.kind = "asym"
    /\ pre.fingerprint # Unset
    /\ pre.secretFile.to # pre.fingerprint
    /\ lastExc = "KeyDoesNotExist"
    /\ secret = pre.secret

\* C14: has_secret and has_keypair change neither the disk (secret file,
\* keyring) nor the instance (gpg wrapper, fingerprint, secret, database),
\* and the same check called again right after gives the same outcome.
PureChecks ==
    [][/\ lastOp' \in {"has_secret", "has_keypair"}
          => <<keyring, secretFile, gpg, fingerprint, secret, sdb>>'
             = <<keyring, secretFile, gpg, fingerprint, secret, sdb>>
       /\ (lastOp \in {"has_secret", "has_keypair"} /\ lastOp' = lastOp)
          => (lastExc' = lastExc /\ lastRet' = lastRet)]_vars

\* C14 witness: has_keypair answered True on an instance that has not loaded
\* its fingerprint, and the instance still has none.
PureChecksWitness ==
    /\ lastOp = "has_keypair"
    /\ lastExc = "none"
    /\ lastRet
    /\ pre.fingerprint = Unset
    /\ fingerprint = Unset
    /\ keyring = pre.keyring
    /\ secretFile = pre.secretFile

\* C15: the local database is open only on an instance that has loaded both
\* its fingerprint and its secret, and a bootstrap that raises opens nothing.
StoreOpenOnlyWithKeys ==
    /\ sdb => (gpg /\ fingerprint # Unset /\ secret # Unset)
    /\ (lastOp = "bootstrap" /\ lastExc # "none") => sdb = pre.sdb

\* C15 witness: a bootstrap has completed and opened the database.
StoreOpenOnlyWithKeysWitness ==
    /\ lastOp = "bootstrap"
    /\ lastExc = "none"
    /\ ~pre.sdb
    /\ sdb
    /\ fingerprint = keyring
    /\ secret = secretFile.body

\* C21: over any sequence of operations on one instance, the secret file is
\* written only by _gen_secret and only when there was no secret file, and
\* whenever the instance holds a secret while the file is an asymmetrically
\* encrypted blob, the blob is encrypted to the cached fingerprint and
\* decrypts to the secret in memory.
SecretMatchesBlob ==
    /\ secretFile # pre.secretFile
       => (pre.secretFile = NoFile /\ "gen_secret" \in calls)
    /\ (secret # Unset /\ secretFile.kind = "asym")
       => /\ fingerprint # Unset
          /\ secretFile.to = fingerprint
          /\ Decrypt(keyring, secretFile) = secret

\* C21 witness: a gen_secret that failed on the file left a secret in memory
\* and no file, and a later gen_secret has replaced that secret and written
\* the blob of the new one.
SecretMatchesBlobWitness ==
    /\ lastOp = "gen_secret"
    /\ lastExc = "none"
    /\ pre.secretFile = NoFile
    /\ pre.secret # Unset
    /\ secret # pre.secret
    /\ secretFile = AsymFile(fingerprint, secret)

====
